---- MODULE Spec2Model ----
(***************************************************************************)
(* arb-checker: the validation pipeline of src/src/main.rs (extension      *)
(* check, existence check, parse, key-length check, key-equality check)    *)
(* and the public validators of src/src/file_opt.rs.                       *)
(*                                                                         *)
(* Strings whose content the code inspects (paths) are sequences of        *)
(* one-character strings.  A HashMap<String,String> is a set of            *)
(* <<key, value>> pairs with unique keys.  A Result is a record            *)
(* [ok, val, msg, cause]: msg is the message of the outermost eyre Report  *)
(* and cause the message of the error it wraps ("" when it wraps none).    *)
(***************************************************************************)
EXTENDS Integers, Sequences, FiniteSets, TLC

VARIABLES paths, fs, pc, i, file_vec, result, log, handles, call

vars == <<paths, fs, pc, i, file_vec, result, log, handles, call>>

(***************************************************************************)
(* Bounds of the model.                                                    *)
(***************************************************************************)
MaxPaths == 3
MaxMaps == 3
MaxMembers == 2

(***************************************************************************)
(* Paths.                                                                  *)
(***************************************************************************)
JsonExt == <<".", "j", "s", "o", "n">>
ArbExt == <<".", "a", "r", "b">>

PathAJson == <<"a">> \o JsonExt
PathBArb == <<"b">> \o ArbExt
PathCJson == <<"c">> \o JsonExt
PathNotesTxt == <<"n", "o", "t", "e", "s", ".", "t", "x", "t">>
PathUpper == <<"d", ".", "J", "S", "O", "N">>
PathBak == <<"e">> \o JsonExt \o <<".", "b", "a", "k">>
PathNoDot == <<"j", "s", "o", "n">>
PathBareExt == ArbExt
PathShort == <<"f", ".", "a", "r">>
PathEmpty == <<>>

\* The paths a run of main is given.
MainPaths == {PathAJson, PathBArb, PathCJson, PathNotesTxt}

\* The paths the extension validator is called with directly.
LibPaths == MainPaths \cup {PathUpper, PathBak, PathNoDot, PathBareExt, PathShort, PathEmpty}

\* All sequences over S of length lo..hi.
SeqsOf(S, lo, hi) == UNION {[1..n -> S] : n \in lo..hi}

Range(s) == {s[k] : k \in DOMAIN s}

(***************************************************************************)
(* Results.                                                                *)
(***************************************************************************)
Ok(v) == [ok |-> TRUE, val |-> v, msg |-> "", cause |-> ""]
OkUnit == Ok({})

\* color_eyre::eyre::eyre!(msg)
Eyre(m) == [ok |-> FALSE, val |-> {}, msg |-> m, cause |-> ""]

\* Result::wrap_err(ctx): the context becomes the message, the error its cause.
WrapErr(r, ctx) == IF r.ok THEN r ELSE [ok |-> FALSE, val |-> {}, msg |-> ctx, cause |-> r.msg]

MsgUsage == "provide at least two files"
MsgExtension == "file name must end with .json or .arb"
MsgProbeFailed == "file permission related issue"
MsgNotFound == "file does not exist"
MsgNotAFile == "given path is not a file"
MsgOpenFailed == "could not open file"
MsgDecodeFailed == "could not read json or arb file"
MsgNoFirst == "no first item"
MsgEmptyFile == "file is empty"
MsgMismatch == "files does not have the same key-value pair"
MsgNoFirstKeys == "could not get first item"
MsgKeySetMismatch == "files does not have the same keys"

\* Messages of the underlying std::io and serde_json errors.
IoNotFound == "io: No such file or directory"
IoPermissionDenied == "io: Permission denied"
IoIsADirectory == "serde_json: io: Is a directory"
SerdeSyntax == "serde_json: syntax error"
SerdeInvalidType == "serde_json: invalid type, expected a string"

(***************************************************************************)
(* The filesystem: what a path resolves to.                                *)
(***************************************************************************)
Keys == {"key1", "key2", "key3"}
Values == {"value1", "value2"}

\* A member of a JSON object: a key and a value that is a string or not.
StrMember(k, v) == [key |-> k, isstr |-> TRUE, val |-> v]
NumMember(k) == [key |-> k, isstr |-> FALSE, val |-> "0"]

\* The content of a file: a JSON object (its members in file order), or
\* bytes that are no JSON object (an array, malformed text, nothing).
ObjectDoc(ms) == [object |-> TRUE, members |-> ms]
GarbageDoc == [object |-> FALSE, members |-> <<>>]

Missing == [kind |-> "missing", readable |-> FALSE, doc |-> GarbageDoc]
Denied == [kind |-> "denied", readable |-> FALSE, doc |-> GarbageDoc]
Directory == [kind |-> "dir", readable |-> TRUE, doc |-> GarbageDoc]
Unreadable == [kind |-> "file", readable |-> FALSE, doc |-> GarbageDoc]
RegularFile(d) == [kind |-> "file", readable |-> TRUE, doc |-> d]

MainDocs ==
    { GarbageDoc,
      ObjectDoc(<<>>),
      ObjectDoc(<<StrMember("key1", "value1")>>),
      ObjectDoc(<<StrMember("key1", "value2")>>),
      ObjectDoc(<<StrMember("key2", "value1")>>),
      ObjectDoc(<<StrMember("key1", "value1"), StrMember("key2", "value2")>>),
      ObjectDoc(<<StrMember("key2", "value1"), StrMember("key1", "value1")>>),
      ObjectDoc(<<StrMember("key1", "value1"), NumMember("key2")>>) }

\* The entries the validators of file_opt.rs are called with directly.
Members == {StrMember(k, v) : k \in Keys, v \in Values} \cup {NumMember(k) : k \in Keys}
LibDocs == {GarbageDoc} \cup {ObjectDoc(ms) : ms \in UNION {[1..n -> Members] : n \in 0..MaxMembers}}
LibEntries == {Missing, Denied, Directory, Unreadable} \cup {RegularFile(d) : d \in LibDocs}
\* Every key set, with every key mapped to value1 or every key to value2.
LibMaps == UNION {{{<<k, v>> : k \in S} : v \in Values} : S \in SUBSET Keys}

MainEntries == {Missing, Denied, Directory, Unreadable} \cup {RegularFile(d) : d \in MainDocs}

(***************************************************************************)
(* Library calls the code makes: str::ends_with, Path::try_exists,         *)
(* Path::is_file, File::open, serde_json::from_reader.                     *)
(***************************************************************************)
\* str::ends_with(suffix)
ends_with(s, suffix) ==
    /\ Len(s) >= Len(suffix)
    /\ SubSeq(s, Len(s) - Len(suffix) + 1, Len(s)) = suffix

\* Path::try_exists: Err when the probe itself fails, else whether the path resolves.
try_exists(fsys, p) ==
    CASE fsys[p].kind = "denied" -> Eyre(IoPermissionDenied)
      [] fsys[p].kind = "missing" -> Ok(FALSE)
      [] OTHER -> Ok(TRUE)

\* Path::is_file: true only for an entry whose metadata can be read and is a regular file.
is_file(fsys, p) == fsys[p].kind = "file"

\* File::open for reading; a directory opens, reading it fails.
file_open(fsys, p) ==
    CASE fsys[p].kind = "missing" -> Eyre(IoNotFound)
      [] fsys[p].kind = "denied" -> Eyre(IoPermissionDenied)
      [] ~fsys[p].readable -> Eyre(IoPermissionDenied)
      [] OTHER -> OkUnit

\* HashMap::insert: the last value of a key wins.
Insert(m, k, v) == {e \in m : e[1] # k} \cup {<<k, v>>}

\* serde_json's map visitor for HashMap<String, String>: members in file
\* order, the first member whose value is no string is an error.
RECURSIVE visit_map(_, _, _)
visit_map(members, k, acc) ==
    IF k > Len(members) THEN Ok(acc)
    ELSE IF ~members[k].isstr THEN Eyre(SerdeInvalidType)
    ELSE visit_map(members, k + 1, Insert(acc, members[k].key, members[k].val))

\* serde_json::from_reader::<_, Data> on an opened handle of the entry.
from_reader(entry) ==
    IF entry.kind = "dir" THEN Eyre(IoIsADirectory)
    ELSE IF ~entry.doc.object THEN Eyre(SerdeSyntax)
    ELSE visit_map(entry.doc.members, 1, {})

\* The keys of a map, and its number of entries (HashMap::len).
KeySet(d) == {e[1] : e \in d}
MapLen(d) == Cardinality(d)

\* Lexicographic order of the keys as Rust compares Strings.
KeyRank(k) == CASE k = "key1" -> 1 [] k = "key2" -> 2 [] k = "key3" -> 3

\* All orders in which HashMap::keys may iterate the keys of d.
KeyOrders(d) ==
    {s \in [1..Cardinality(KeySet(d)) -> KeySet(d)] : Range(s) = KeySet(d)}

\* One iteration order for every map of the list.
RECURSIVE IterOrders(_)
IterOrders(data) ==
    IF data = <<>> THEN {<<>>}
    ELSE {<<o>> \o rest : o \in KeyOrders(Head(data)), rest \in IterOrders(Tail(data))}

\* slice::sort on a Vec<usize>, as an insertion sort.
RECURSIVE InsertSorted(_, _)
InsertSorted(s, x) ==
    IF s = <<>> THEN <<x>>
    ELSE IF x <= Head(s) THEN <<x>> \o s
    ELSE <<Head(s)>> \o InsertSorted(Tail(s), x)

RECURSIVE sort(_)
sort(s) == IF s = <<>> THEN <<>> ELSE InsertSorted(sort(Tail(s)), Head(s))

\* slice::sort on a Vec<&String>: by the order of the strings.
RECURSIVE InsertSortedKey(_, _)
InsertSortedKey(s, x) ==
    IF s = <<>> THEN <<x>>
    ELSE IF KeyRank(x) <= KeyRank(Head(s)) THEN <<x>> \o s
    ELSE <<Head(s)>> \o InsertSortedKey(Tail(s), x)

RECURSIVE sort_keys(_)
sort_keys(s) == IF s = <<>> THEN <<>> ELSE InsertSortedKey(sort_keys(Tail(s)), Head(s))

(***************************************************************************)
(* src/src/file_opt.rs: the public validators.                             *)
(***************************************************************************)
RECURSIVE check_file_extension_loop(_, _)
check_file_extension_loop(file_paths, k) ==
    IF k > Len(file_paths) THEN OkUnit
    ELSE IF ~ends_with(file_paths[k], JsonExt) /\ ~ends_with(file_paths[k], ArbExt)
         THEN Eyre(MsgExtension)
    ELSE check_file_extension_loop(file_paths, k + 1)

\* check_file_extension that also accepts the upper-case suffix .JSON, as a
\* comparison without regard to case would.
RECURSIVE check_file_extension_nocase_loop(_, _)
check_file_extension_nocase_loop(file_paths, k) ==
    IF k > Len(file_paths) THEN OkUnit
    ELSE IF /\ ~ends_with(file_paths[k], JsonExt)
            /\ ~ends_with(file_paths[k], ArbExt)
            /\ ~ends_with(file_paths[k], <<".", "J", "S", "O", "N">>)
         THEN Eyre(MsgExtension)
    ELSE check_file_extension_nocase_loop(file_paths, k + 1)

check_file_extension_nocase(file_paths) == check_file_extension_nocase_loop(file_paths, 1)

check_file_extension(file_paths) == check_file_extension_loop(file_paths, 1)

\* check_files_exist with the two tests in the other order.
check_files_exist_swapped(fsys, file_path) ==
    LET is_exist == WrapErr(try_exists(fsys, file_path), MsgProbeFailed) IN
    IF ~is_exist.ok THEN is_exist
    ELSE LET isfile == is_file(fsys, file_path) IN
         IF ~isfile THEN Eyre(MsgNotAFile)
         ELSE IF ~is_exist.val THEN Eyre(MsgNotFound)
         ELSE OkUnit

check_files_exist(fsys, file_path) ==
    LET is_exist == WrapErr(try_exists(fsys, file_path), MsgProbeFailed) IN
    IF ~is_exist.ok THEN is_exist
    ELSE LET isfile == is_file(fsys, file_path) IN
         IF ~is_exist.val THEN Eyre(MsgNotFound)
         ELSE IF ~isfile THEN Eyre(MsgNotAFile)
         ELSE OkUnit

\* check_key_length without key_lengths.sort().
check_key_length_unsorted(data) ==
    LET key_lengths == [k \in DOMAIN data |-> MapLen(data[k])] IN
    IF key_lengths = <<>> THEN Eyre(MsgNoFirst)
    ELSE LET first == key_lengths[1]
             last == key_lengths[Len(key_lengths)] IN
         IF first = 0 \/ last = 0 THEN Eyre(MsgEmptyFile)
         ELSE IF first # last THEN Eyre(MsgMismatch)
         ELSE OkUnit

\* check_key_length with the two tests in the other order.
check_key_length_swapped(data) ==
    LET key_lengths == sort([k \in DOMAIN data |-> MapLen(data[k])]) IN
    IF key_lengths = <<>> THEN Eyre(MsgNoFirst)
    ELSE LET first == key_lengths[1]
             last == key_lengths[Len(key_lengths)] IN
         IF first # last THEN Eyre(MsgMismatch)
         ELSE IF first = 0 \/ last = 0 THEN Eyre(MsgEmptyFile)
         ELSE OkUnit

check_key_length(data) ==
    LET key_lengths == sort([k \in DOMAIN data |-> MapLen(data[k])]) IN
    IF key_lengths = <<>> THEN Eyre(MsgNoFirst)
    ELSE LET first == key_lengths[1]
             last == key_lengths[Len(key_lengths)] IN
         IF first = 0 \/ last = 0 THEN Eyre(MsgEmptyFile)
         ELSE IF first # last THEN Eyre(MsgMismatch)
         ELSE OkUnit

read_json(fsys, file_path) ==
    LET file == WrapErr(file_open(fsys, file_path), MsgOpenFailed) IN
    IF ~file.ok THEN file
    ELSE WrapErr(from_reader(fsys[file_path]), MsgDecodeFailed)

\* it[k] is the order in which data[k].keys() yields the keys.
RECURSIVE check_files_equal_loop(_, _, _)
check_files_equal_loop(first, key_iter, k) ==
    IF k > Len(key_iter) THEN OkUnit
    ELSE IF first # key_iter[k] THEN Eyre(MsgKeySetMismatch)
    ELSE check_files_equal_loop(first, key_iter, k + 1)

\* check_files_equal without keys.sort().
check_files_equal_unsorted(data, it) ==
    LET key_iter == [k \in DOMAIN data |-> it[k]] IN
    IF key_iter = <<>> THEN Eyre(MsgNoFirstKeys)
    ELSE check_files_equal_loop(key_iter[1], key_iter, 2)

\* check_files_equal whose loop skips the map after the first.
check_files_equal_skip_second(data, it) ==
    LET key_iter == [k \in DOMAIN data |-> sort_keys(it[k])] IN
    IF key_iter = <<>> THEN Eyre(MsgNoFirstKeys)
    ELSE check_files_equal_loop(key_iter[1], key_iter, 3)

check_files_equal(data, it) ==
    LET key_iter == [k \in DOMAIN data |-> sort_keys(it[k])] IN
    IF key_iter = <<>> THEN Eyre(MsgNoFirstKeys)
    ELSE check_files_equal_loop(key_iter[1], key_iter, 2)

(***************************************************************************)
(* src/src/main.rs: the private copies the pipeline calls.                 *)
(***************************************************************************)
RECURSIVE check_file_ext_loop(_, _)
check_file_ext_loop(file_paths, k) ==
    IF k > Len(file_paths) THEN OkUnit
    ELSE IF ~ends_with(file_paths[k], JsonExt) /\ ~ends_with(file_paths[k], ArbExt)
         THEN Eyre(MsgExtension)
    ELSE check_file_ext_loop(file_paths, k + 1)

\* check_file_ext that looks at the first path only.
check_file_ext_first_only(file_paths) ==
    IF file_paths = <<>> THEN OkUnit
    ELSE check_file_ext_loop(SubSeq(file_paths, 1, 1), 1)

check_file_ext(file_paths) == check_file_ext_loop(file_paths, 1)

main_check_files_exist(fsys, file_path) ==
    LET is_exist == WrapErr(try_exists(fsys, file_path), MsgProbeFailed) IN
    IF ~is_exist.ok THEN is_exist
    ELSE LET isfile == is_file(fsys, file_path) IN
         IF ~is_exist.val THEN Eyre(MsgNotFound)
         ELSE IF ~isfile THEN Eyre(MsgNotAFile)
         ELSE OkUnit

\* main's check_key_length without key_lengths.sort().
main_check_key_length_unsorted(data) ==
    LET key_lengths == [k \in DOMAIN data |-> MapLen(data[k])] IN
    IF key_lengths = <<>> THEN Eyre(MsgNoFirst)
    ELSE LET first == key_lengths[1]
             last == key_lengths[Len(key_lengths)] IN
         IF first = 0 \/ last = 0 THEN Eyre(MsgEmptyFile)
         ELSE IF first # last THEN Eyre(MsgMismatch)
         ELSE OkUnit

\* main's check_key_length without the test for an empty map.
main_check_key_length_no_empty_test(data) ==
    LET key_lengths == sort([k \in DOMAIN data |-> MapLen(data[k])]) IN
    IF key_lengths = <<>> THEN Eyre(MsgNoFirst)
    ELSE IF key_lengths[1] # key_lengths[Len(key_lengths)] THEN Eyre(MsgMismatch)
    ELSE OkUnit

main_check_key_length(data) ==
    LET key_lengths == sort([k \in DOMAIN data |-> MapLen(data[k])]) IN
    IF key_lengths = <<>> THEN Eyre(MsgNoFirst)
    ELSE LET first == key_lengths[1]
             last == key_lengths[Len(key_lengths)] IN
         IF first = 0 \/ last = 0 THEN Eyre(MsgEmptyFile)
         ELSE IF first # last THEN Eyre(MsgMismatch)
         ELSE OkUnit

\* File::open(file_path)? : the io::Error itself becomes the Report.
main_read_json_open(fsys, file_path) == file_open(fsys, file_path)

\* serde_json::from_reader(reader)? and Ok(json).
main_read_json_decode(fsys, file_path) == from_reader(fsys[file_path])

main_read_json(fsys, file_path) ==
    LET file == main_read_json_open(fsys, file_path) IN
    IF ~file.ok THEN file ELSE main_read_json_decode(fsys, file_path)

RECURSIVE main_check_files_equal_loop(_, _, _)
main_check_files_equal_loop(first, key_iter, k) ==
    IF k > Len(key_iter) THEN OkUnit
    ELSE IF first # key_iter[k] THEN Eyre(MsgKeySetMismatch)
    ELSE main_check_files_equal_loop(first, key_iter, k + 1)

\* main's check_files_equal without keys.sort().
main_check_files_equal_unsorted(data, it) ==
    LET key_iter == [k \in DOMAIN data |-> it[k]] IN
    IF key_iter = <<>> THEN Eyre(MsgNoFirstKeys)
    ELSE main_check_files_equal_loop(key_iter[1], key_iter, 2)

main_check_files_equal(data, it) ==
    LET key_iter == [k \in DOMAIN data |-> sort_keys(it[k])] IN
    IF key_iter = <<>> THEN Eyre(MsgNoFirstKeys)
    ELSE main_check_files_equal_loop(key_iter[1], key_iter, 2)

(***************************************************************************)
(* One run of main (src/src/main.rs:101-126).                              *)
(*   paths     cli.file                                                    *)
(*   fs        what every given path resolves to                           *)
(*   pc        the statement main is at                                    *)
(*   i         the index of the current path in the two for loops          *)
(*   file_vec  the maps parsed so far                                      *)
(*   result    what main returned, once pc = "done"                        *)
(*   log       the stages executed so far, each with its outcome           *)
(*   handles   the indices of the paths whose file handle is open          *)
(*   call      the last direct call of a validator of file_opt.rs          *)
(***************************************************************************)
Running == [ok |-> FALSE, val |-> {}, msg |-> "<running>", cause |-> ""]
NoCall == [fn |-> "none", arg |-> <<>>, res |-> OkUnit]

Event(stage, idx, ok) == [stage |-> stage, idx |-> idx, ok |-> ok]

\* clap's required = true (main.rs:12) leaves at least one path.
Init ==
    /\ paths \in SeqsOf(MainPaths, 1, MaxPaths)
    /\ fs \in [Range(paths) -> MainEntries]
    /\ pc = "args"
    /\ i = 0
    /\ file_vec = <<>>
    /\ result = Running
    /\ log = <<>>
    /\ handles = {}
    /\ call = NoCall

\* The ? operator and return Err(..): main ends with the error.
Fail(r) ==
    /\ pc' = "done"
    /\ result' = r

\* CheckArgs counting the distinct paths instead of the paths.
CheckArgsDistinct ==
    /\ pc = "args"
    /\ IF Cardinality(Range(paths)) < 2
       THEN Fail(Eyre(MsgUsage))
       ELSE pc' = "ext" /\ UNCHANGED result
    /\ UNCHANGED <<paths, fs, i, file_vec, log, handles, call>>

\* CheckArgs with the minimum off by one: a single path is let through.
CheckArgsOffByOne ==
    /\ pc = "args"
    /\ IF Len(paths) < 1
       THEN Fail(Eyre(MsgUsage))
       ELSE pc' = "ext" /\ UNCHANGED result
    /\ UNCHANGED <<paths, fs, i, file_vec, log, handles, call>>

\* main.rs:106-108
CheckArgs ==
    /\ pc = "args"
    /\ IF Len(paths) < 2
       THEN Fail(Eyre(MsgUsage))
       ELSE pc' = "ext" /\ UNCHANGED result
    /\ UNCHANGED <<paths, fs, i, file_vec, log, handles, call>>

\* main.rs:110
CheckFileExt ==
    /\ pc = "ext"
    /\ LET r == check_file_ext(paths) IN
       /\ log' = Append(log, Event("ext", 0, r.ok))
       /\ IF r.ok
          THEN pc' = "exist" /\ i' = 1 /\ UNCHANGED result
          ELSE Fail(r) /\ UNCHANGED i
    /\ UNCHANGED <<paths, fs, file_vec, handles, call>>

\* CheckFilesExist with the result of check_files_exist dropped instead of
\* propagated with ?.
CheckFilesExistIgnoringError ==
    /\ pc = "exist"
    /\ LET r == main_check_files_exist(fs, paths[i]) IN
       /\ log' = Append(log, Event("exist", i, r.ok))
       /\ IF i < Len(paths) THEN i' = i + 1 /\ UNCHANGED <<pc, result>>
          ELSE pc' = "open" /\ i' = 1 /\ UNCHANGED result
    /\ UNCHANGED <<paths, fs, file_vec, handles, call>>

\* main.rs:112-114, one iteration
CheckFilesExist ==
    /\ pc = "exist"
    /\ LET r == main_check_files_exist(fs, paths[i]) IN
       /\ log' = Append(log, Event("exist", i, r.ok))
       /\ IF ~r.ok THEN Fail(r) /\ UNCHANGED i
          ELSE IF i < Len(paths) THEN i' = i + 1 /\ UNCHANGED <<pc, result>>
          ELSE pc' = "open" /\ i' = 1 /\ UNCHANGED result
    /\ UNCHANGED <<paths, fs, file_vec, handles, call>>

\* main.rs:118 into read_json, main.rs:71
OpenFile ==
    /\ pc = "open"
    /\ LET r == main_read_json_open(fs, paths[i]) IN
       /\ log' = Append(log, Event("open", i, r.ok))
       /\ IF ~r.ok THEN Fail(r) /\ UNCHANGED handles
          ELSE pc' = "decode" /\ handles' = handles \cup {i} /\ UNCHANGED result
    /\ UNCHANGED <<paths, fs, i, file_vec, call>>

\* DecodeFile that keeps the handle when decoding fails.
DecodeFileLeakOnError ==
    /\ pc = "decode"
    /\ LET r == main_read_json_decode(fs, paths[i]) IN
       /\ log' = Append(log, Event("decode", i, r.ok))
       /\ IF ~r.ok THEN Fail(r) /\ UNCHANGED <<i, file_vec, handles>>
          ELSE /\ file_vec' = Append(file_vec, r.val)
               /\ handles' = handles \ {i}
               /\ IF i < Len(paths) THEN pc' = "open" /\ i' = i + 1
                  ELSE pc' = "len" /\ UNCHANGED i
               /\ UNCHANGED result
    /\ UNCHANGED <<paths, fs, call>>

\* main.rs:72-75: decode, drop the reader with its File, return; main.rs:119
DecodeFile ==
    /\ pc = "decode"
    /\ LET r == main_read_json_decode(fs, paths[i]) IN
       /\ log' = Append(log, Event("decode", i, r.ok))
       /\ handles' = handles \ {i}
       /\ IF ~r.ok THEN Fail(r) /\ UNCHANGED <<i, file_vec>>
          ELSE /\ file_vec' = Append(file_vec, r.val)
               /\ IF i < Len(paths) THEN pc' = "open" /\ i' = i + 1
                  ELSE pc' = "len" /\ UNCHANGED i
               /\ UNCHANGED result
    /\ UNCHANGED <<paths, fs, call>>

\* main.rs:122
CheckKeyLength ==
    /\ pc = "len"
    /\ LET r == main_check_key_length(file_vec) IN
       /\ log' = Append(log, Event("len", 0, r.ok))
       /\ IF ~r.ok THEN Fail(r) ELSE pc' = "eq" /\ UNCHANGED result
    /\ UNCHANGED <<paths, fs, i, file_vec, handles, call>>

\* main.rs:123-125; the maps iterate their keys in any order
CheckFilesEqual ==
    /\ pc = "eq"
    /\ \E it \in IterOrders(file_vec) :
         LET r == main_check_files_equal(file_vec, it) IN
         /\ log' = Append(log, Event("eq", 0, r.ok))
         /\ IF ~r.ok THEN Fail(r) ELSE pc' = "done" /\ result' = OkUnit
    /\ UNCHANGED <<paths, fs, i, file_vec, handles, call>>

Next ==
    \/ CheckArgs
    \/ CheckFileExt
    \/ CheckFilesExist
    \/ OpenFile
    \/ DecodeFile
    \/ CheckKeyLength
    \/ CheckFilesEqual

Spec == Init /\ [][Next]_vars

(***************************************************************************)
(* Direct calls of the validators of src/src/file_opt.rs, as its tests     *)
(* make them: every call draws its argument and records the result.        *)
(***************************************************************************)
InitLib ==
    /\ paths = <<>>
    /\ fs = <<>>
    /\ pc = "lib"
    /\ i = 0
    /\ file_vec = <<>>
    /\ result = Running
    /\ log = <<>>
    /\ handles = {}
    /\ call = NoCall

CallCheckFileExtension ==
    /\ pc = "lib"
    /\ \E file_paths \in SeqsOf(LibPaths, 0, MaxPaths) :
         call' = [fn |-> "check_file_extension", arg |-> file_paths,
                  res |-> check_file_extension(file_paths)]
    /\ pc' = "returned"
    /\ UNCHANGED <<paths, fs, i, file_vec, result, log, handles>>

CallCheckFilesExist ==
    /\ pc = "lib"
    /\ \E e \in LibEntries :
         LET fsys == [p \in {PathAJson} |-> e] IN
         call' = [fn |-> "check_files_exist", arg |-> e,
                  res |-> check_files_exist(fsys, PathAJson)]
    /\ pc' = "returned"
    /\ UNCHANGED <<paths, fs, i, file_vec, result, log, handles>>

CallReadJson ==
    /\ pc = "lib"
    /\ \E e \in LibEntries :
         LET fsys == [p \in {PathAJson} |-> e] IN
         call' = [fn |-> "read_json", arg |-> e, res |-> read_json(fsys, PathAJson)]
    /\ pc' = "returned"
    /\ UNCHANGED <<paths, fs, i, file_vec, result, log, handles>>

CallCheckKeyLength ==
    /\ pc = "lib"
    /\ \E data \in SeqsOf(LibMaps, 0, MaxMaps) :
         call' = [fn |-> "check_key_length", arg |-> data, res |-> check_key_length(data)]
    /\ pc' = "returned"
    /\ UNCHANGED <<paths, fs, i, file_vec, result, log, handles>>

\* The maps iterate their keys in any order.
CallCheckFilesEqual ==
    /\ pc = "lib"
    /\ \E data \in SeqsOf(LibMaps, 0, MaxMaps) :
         \E it \in IterOrders(data) :
            call' = [fn |-> "check_files_equal", arg |-> [data |-> data, it |-> it],
                     res |-> check_files_equal(data, it)]
    /\ pc' = "returned"
    /\ UNCHANGED <<paths, fs, i, file_vec, result, log, handles>>

NextLib ==
    \/ CallCheckFileExtension
    \/ CallCheckFilesExist
    \/ CallReadJson
    \/ CallCheckKeyLength
    \/ CallCheckFilesEqual

SpecLib == InitLib /\ [][NextLib]_vars

(***************************************************************************)
(* Vocabulary of the properties, stated without the code's operators.      *)
(***************************************************************************)
\* p is some prefix followed by ext.
HasSuffix(p, ext) == \E n \in 0..Len(p) : p = SubSeq(p, 1, n) \o ext
Allowed(p) == HasSuffix(p, JsonExt) \/ HasSuffix(p, ArbExt)

\* The stages a run over n paths executes when nothing fails, in order.
ExistStages(n) == [k \in 1..n |-> <<"exist", k>>]
ParseStages(n) == [k \in 1..(2 * n) |-> IF k % 2 = 1 THEN <<"open", (k + 1) \div 2>>
                                                      ELSE <<"decode", k \div 2>>]
Schedule(n) == <<<<"ext", 0>>>> \o ExistStages(n) \o ParseStages(n) \o <<<<"len", 0>>, <<"eq", 0>>>>

\* The messages with which each stage fails.
StageMsgs(stage) ==
    CASE stage = "ext" -> {MsgExtension}
      [] stage = "exist" -> {MsgProbeFailed, MsgNotFound, MsgNotAFile}
      [] stage = "open" -> {IoNotFound, IoPermissionDenied, MsgOpenFailed}
      [] stage = "decode" -> {IoIsADirectory, SerdeSyntax, SerdeInvalidType, MsgDecodeFailed}
      [] stage = "len" -> {MsgNoFirst, MsgEmptyFile, MsgMismatch}
      [] stage = "eq" -> {MsgNoFirstKeys, MsgKeySetMismatch}

Stages == {"ext", "exist", "open", "decode", "len", "eq"}
ValidatorMsgs == UNION {StageMsgs(st) : st \in Stages}

Done == pc = "done"
LastEvent == log[Len(log)]

\* The file behind p is a readable regular file holding a JSON object whose
\* values are all strings; DocKeys is the set of its member names.
FlatMapFile(e) ==
    /\ e.kind = "file"
    /\ e.readable
    /\ e.doc.object
    /\ \A k \in DOMAIN e.doc.members : e.doc.members[k].isstr
DocKeys(e) == {e.doc.members[k].key : k \in DOMAIN e.doc.members}

(***************************************************************************)
(* Properties of a run of main (Spec).                                     *)
(***************************************************************************)
\* C1: with two or more paths the stages run in the order extension check,
\* existence check of every path in input order, parse of every path in
\* input order, key-length check, key-equality check; a step runs only
\* after every earlier step succeeded, and a run that ends in an error
\* ends right after the failed step, with the error of that step's stage.
C1_StagesInOrderFailFast ==
    Len(paths) >= 2 =>
        /\ Len(log) <= Len(Schedule(Len(paths)))
        /\ \A k \in DOMAIN log : <<log[k].stage, log[k].idx>> = Schedule(Len(paths))[k]
        /\ \A k \in 1..(Len(log) - 1) : log[k].ok
        /\ (Done /\ result.ok) =>
              /\ Len(log) = Len(Schedule(Len(paths)))
              /\ \A k \in DOMAIN log : log[k].ok
        /\ (Done /\ ~result.ok) =>
              /\ log # <<>>
              /\ ~LastEvent.ok
              /\ result.msg \in StageMsgs(LastEvent.stage)
        /\ ~Done => \A k \in DOMAIN log : log[k].ok

\* A run of three paths that failed decoding the second file, after both
\* probes of the later paths and the parse of the first succeeded.
C1_Witness ==
    /\ Done
    /\ Len(paths) = 3
    /\ ~result.ok
    /\ LastEvent.stage = "decode"
    /\ LastEvent.idx = 2

\* C2: when main ends in success there is one parsed map per path, every
\* map has the same non-zero number of entries, and all maps have the same
\* key set.
C2_SuccessMeansEqualKeySets ==
    (Done /\ result.ok) =>
        /\ Len(file_vec) = Len(paths)
        /\ \A k \in DOMAIN file_vec :
              /\ MapLen(file_vec[k]) > 0
              /\ MapLen(file_vec[k]) = MapLen(file_vec[1])
              /\ KeySet(file_vec[k]) = KeySet(file_vec[1])

\* A successful run over three paths whose maps differ in a value.
C2_Witness ==
    /\ Done
    /\ result.ok
    /\ Len(paths) = 3
    /\ \E k \in DOMAIN file_vec : file_vec[k] # file_vec[1]

\* C3: two or more paths, all ending in .json or .arb, all readable regular
\* files holding flat string maps with one common non-empty key set: every
\* stage succeeds, the run can always take its next step until it ends,
\* and it ends in success.
ValidInput ==
    /\ Len(paths) >= 2
    /\ \A k \in DOMAIN paths :
          /\ Allowed(paths[k])
          /\ FlatMapFile(fs[paths[k]])
          /\ DocKeys(fs[paths[k]]) # {}
          /\ DocKeys(fs[paths[k]]) = DocKeys(fs[paths[1]])

C3_ValidInputSucceeds ==
    ValidInput =>
        /\ \A k \in DOMAIN log : log[k].ok
        /\ Done => result = OkUnit
        /\ ~Done => (result = Running /\ ENABLED Next)

\* A finished run on valid input: two different files with the two keys in
\* different member order and with different values.
C3_Witness ==
    /\ Done
    /\ ValidInput
    /\ Cardinality(DocKeys(fs[paths[1]])) = 2
    /\ \E k \in DOMAIN paths : fs[paths[k]] # fs[paths[1]]

\* C4 as stated: a run given fewer than two distinct paths ends in the
\* usage error, before any stage ran.
C4_FewerThanTwoDistinctIsUsageError ==
    (Done /\ Cardinality(Range(paths)) < 2) =>
        /\ result = Eyre(MsgUsage)
        /\ log = <<>>

\* C4, amended: a run given fewer than two paths, repeated paths counted
\* each time, ends in the usage error before any stage ran, no file probed
\* or opened; the usage error is none of the validators' errors; and a run
\* given two or more paths never ends in the usage error.
C4_FewerThanTwoPathsIsUsageError ==
    /\ Len(paths) < 2 =>
          /\ log = <<>>
          /\ handles = {}
          /\ Done => result = Eyre(MsgUsage)
    /\ MsgUsage \notin ValidatorMsgs
    /\ (Done /\ Len(paths) >= 2) => result.msg # MsgUsage

\* A run of one path, with an allowed extension and a valid file, that ended.
C4_Witness ==
    /\ Done
    /\ Len(paths) = 1
    /\ Allowed(paths[1])
    /\ FlatMapFile(fs[paths[1]])
    /\ result = Eyre(MsgUsage)

C8_PipelineReadJsonWrapsErrors ==
    (Done /\ ~result.ok /\ log # <<>>) =>
        /\ LastEvent.stage = "open" => (result.msg = MsgOpenFailed /\ result.cause # "")
        /\ LastEvent.stage = "decode" => (result.msg = MsgDecodeFailed /\ result.cause # "")

(***************************************************************************)
(* Properties of the validators of file_opt.rs (SpecLib).                  *)
(***************************************************************************)
Returned(fn) == pc = "returned" /\ call.fn = fn

\* C5: check_file_extension succeeds exactly when every path of the list
\* ends, case-sensitively, with .json or .arb (the empty list included),
\* and fails with the extension error otherwise, wherever the offending
\* path sits.
C5_ExtensionIffAllAllowed ==
    Returned("check_file_extension") =>
        /\ call.res.ok <=> \A k \in DOMAIN call.arg : Allowed(call.arg[k])
        /\ call.res.ok => call.res = OkUnit
        /\ ~call.res.ok => call.res = Eyre(MsgExtension)

\* A list of three whose only offending path, d.JSON, is the last.
C5_Witness ==
    /\ Returned("check_file_extension")
    /\ Len(call.arg) = 3
    /\ Allowed(call.arg[1]) /\ Allowed(call.arg[2])
    /\ call.arg[3] = PathUpper
    /\ ~call.res.ok

\* The empty list succeeds.
C5_WitnessEmpty ==
    /\ Returned("check_file_extension")
    /\ call.arg = <<>>
    /\ call.res.ok

\* C7: check_files_exist succeeds exactly for an existing regular file;
\* otherwise a failed probe gives "file permission related issue" with
\* its cause, else a path that does not exist gives "file does not
\* exist", else an entry that is no regular file gives "given path is not
\* a file".
C7_ExistenceErrorsInPriorityOrder ==
    Returned("check_files_exist") =>
        LET e == call.arg IN
        /\ call.res.ok <=> e.kind = "file"
        /\ call.res.ok => call.res = OkUnit
        /\ e.kind = "denied" =>
              call.res = [ok |-> FALSE, val |-> {}, msg |-> MsgProbeFailed,
                          cause |-> IoPermissionDenied]
        /\ e.kind = "missing" => call.res = Eyre(MsgNotFound)
        /\ e.kind = "dir" => call.res = Eyre(MsgNotAFile)

\* A path that does not exist: it is no regular file either.
C7_Witness ==
    /\ Returned("check_files_exist")
    /\ call.arg = Missing
    /\ call.res = Eyre(MsgNotFound)

\* All orders of the sequence s.
Reorderings(s) ==
    {[k \in DOMAIN s |-> s[f[k]]] : f \in {g \in [DOMAIN s -> DOMAIN s] : Range(g) = DOMAIN s}}

\* C9: check_key_length succeeds exactly when the list is non-empty and
\* every map has the same non-zero number of entries, and the result is
\* the same for every order of the maps.
C9_KeyLengthIffEqualNonZero ==
    Returned("check_key_length") =>
        LET data == call.arg IN
        /\ call.res.ok <=>
              /\ data # <<>>
              /\ \A k \in DOMAIN data : Cardinality(data[k]) > 0
              /\ \A j, k \in DOMAIN data : Cardinality(data[j]) = Cardinality(data[k])
        /\ call.res.ok => call.res = OkUnit
        /\ \A other \in Reorderings(data) : check_key_length(other) = call.res

\* Three maps with 1, 2 and 1 entries: the first and the last agree.
C9_Witness ==
    /\ Returned("check_key_length")
    /\ Len(call.arg) = 3
    /\ Cardinality(call.arg[1]) = 1
    /\ Cardinality(call.arg[2]) = 2
    /\ Cardinality(call.arg[3]) = 1
    /\ ~call.res.ok

\* C10: check_key_length on no maps gives "no first item"; else, when
\* some map is empty, "file is empty", even when the counts differ; and
\* "files does not have the same key-value pair" only when no map is
\* empty and the counts differ.
C10_KeyLengthErrorPrecedence ==
    Returned("check_key_length") =>
        LET data == call.arg
            counts == {Cardinality(data[k]) : k \in DOMAIN data} IN
        /\ data = <<>> => call.res = Eyre(MsgNoFirst)
        /\ (data # <<>> /\ 0 \in counts) => call.res = Eyre(MsgEmptyFile)
        /\ call.res = Eyre(MsgMismatch) <=>
              (data # <<>> /\ 0 \notin counts /\ Cardinality(counts) > 1)

\* An empty map next to a map of two entries.
C10_Witness ==
    /\ Returned("check_key_length")
    /\ Len(call.arg) = 2
    /\ Cardinality(call.arg[1]) = 2
    /\ call.arg[2] = {}
    /\ call.res = Eyre(MsgEmptyFile)

\* The keys of the map m.
KeysOf(m) == {e[1] : e \in m}

\* C11: check_files_equal on no maps gives "could not get first item"; on
\* a non-empty list it succeeds exactly when all maps have the same key
\* set, whatever the values and the orders in which the maps iterate
\* their keys (so always on one map), and fails with "files does not have
\* the same keys" when some map has an extra, missing or substituted key.
C11_FilesEqualIffSameKeySets ==
    Returned("check_files_equal") =>
        LET data == call.arg.data IN
        /\ data = <<>> => call.res = Eyre(MsgNoFirstKeys)
        /\ data # <<>> =>
              /\ call.res.ok <=> \A j, k \in DOMAIN data : KeysOf(data[j]) = KeysOf(data[k])
              /\ call.res.ok => call.res = OkUnit
              /\ ~call.res.ok => call.res = Eyre(MsgKeySetMismatch)
        /\ Len(data) = 1 => call.res.ok

\* Two maps with the same two keys and different values, iterated in
\* different orders.
C11_Witness ==
    /\ Returned("check_files_equal")
    /\ Len(call.arg.data) = 2
    /\ Cardinality(call.arg.data[1]) = 2
    /\ call.arg.data[1] # call.arg.data[2]
    /\ call.arg.it[1] # call.arg.it[2]
    /\ call.res.ok

\* C12 as stated: on every list of maps on which check_files_equal
\* succeeds, check_key_length succeeds as well.
C12_EqualImpliesLengthOk ==
    (Returned("check_files_equal") /\ call.res.ok) => check_key_length(call.arg.data).ok

\* Two or more maps with one non-zero number of entries but not one key set.
SameCountOtherKeys(data) ==
    /\ Len(data) >= 2
    /\ \A k \in DOMAIN data : Cardinality(data[k]) > 0
    /\ \A j, k \in DOMAIN data : Cardinality(data[j]) = Cardinality(data[k])
    /\ \E j, k \in DOMAIN data : KeysOf(data[j]) # KeysOf(data[k])

\* C12, amended: on every list of non-empty maps on which
\* check_files_equal succeeds, check_key_length succeeds as well; and on
\* every list of maps with one non-zero number of entries but different
\* keys check_key_length succeeds and check_files_equal fails.
C12_LengthNecessaryNotSufficient ==
    Returned("check_files_equal") =>
        LET data == call.arg.data IN
        /\ (call.res.ok /\ \A k \in DOMAIN data : data[k] # {}) =>
              check_key_length(data) = OkUnit
        /\ SameCountOtherKeys(data) =>
              /\ check_key_length(data) = OkUnit
              /\ call.res = Eyre(MsgKeySetMismatch)

\* The maps {key1, key2} and {key3, key2}.
C12_Witness ==
    /\ Returned("check_files_equal")
    /\ Len(call.arg.data) = 2
    /\ KeysOf(call.arg.data[1]) = {"key1", "key2"}
    /\ KeysOf(call.arg.data[2]) = {"key3", "key2"}
    /\ check_key_length(call.arg.data).ok
    /\ ~call.res.ok

\* Three non-empty maps on which check_files_equal succeeded.
C12_WitnessNecessary ==
    /\ Returned("check_files_equal")
    /\ Len(call.arg.data) = 3
    /\ \A k \in DOMAIN call.arg.data : Cardinality(call.arg.data[k]) = 2
    /\ call.res.ok

(***************************************************************************)
(* Further properties of a run of main (Spec).                             *)
(***************************************************************************)
\* Two or more paths with allowed extensions, all readable regular files
\* holding flat string maps; EntryCount is the number of entries of the
\* map a file decodes to.
AllParse ==
    /\ Len(paths) >= 2
    /\ \A k \in DOMAIN paths : Allowed(paths[k]) /\ FlatMapFile(fs[paths[k]])
EntryCount(k) == Cardinality(DocKeys(fs[paths[k]]))

\* C13: when every file passes the extension, existence and parse stages
\* but the maps do not all have the same number of entries, the run fails
\* at the key-length stage, with "file is empty" when some map is empty
\* and "files does not have the same key-value pair" otherwise, and the
\* key-equality check is never executed.
C13_CountMismatchFailsAtLength ==
    (AllParse /\ \E j, k \in DOMAIN paths : EntryCount(j) # EntryCount(k)) =>
        /\ \A k \in DOMAIN log : log[k].stage # "eq"
        /\ \A k \in DOMAIN log : log[k].stage # "len" => log[k].ok
        /\ Done =>
              /\ LastEvent = Event("len", 0, FALSE)
              /\ result = IF \E k \in DOMAIN paths : EntryCount(k) = 0
                          THEN Eyre(MsgEmptyFile)
                          ELSE Eyre(MsgMismatch)

\* Three files with 1, 2 and 1 entries.
C13_Witness ==
    /\ Done
    /\ AllParse
    /\ Len(paths) = 3
    /\ EntryCount(1) = 1 /\ EntryCount(2) = 2 /\ EntryCount(3) = 1
    /\ result = Eyre(MsgMismatch)

\* C14: at most one file handle is open at any time; a handle is held
\* only inside read_json, between its open and its return, and it is the
\* handle of the current path; none is held when the next file is opened,
\* in the other stages, or when the run has ended, in success or in any
\* error.
C14_OneHandleReleasedOnReturn ==
    /\ Cardinality(handles) <= 1
    /\ pc = "decode" => handles = {i}
    /\ pc # "decode" => handles = {}

\* A run that ended because the second file did not decode, after the
\* first was opened, decoded and released.
C14_Witness ==
    /\ Done
    /\ Len(log) >= 2
    /\ LastEvent = Event("decode", 2, FALSE)
    /\ \E k \in DOMAIN log : log[k] = Event("decode", 1, TRUE)
    /\ handles = {}

\* C15: a path given two or more times is not rejected: every occurrence
\* counts toward the minimum of two and is probed and parsed on its own,
\* and when all the paths are one path, with an allowed extension, naming
\* a flat string map that is not empty, every stage succeeds and the run
\* ends in success with one map per occurrence.
C15_DuplicatePathsAccepted ==
    /\ (Len(paths) >= 2 /\ Cardinality(Range(paths)) < Len(paths)) =>
          /\ result.msg # MsgUsage
          /\ \A k \in DOMAIN log : <<log[k].stage, log[k].idx>> = Schedule(Len(paths))[k]
    /\ ( /\ Len(paths) >= 2
         /\ Cardinality(Range(paths)) = 1
         /\ Allowed(paths[1])
         /\ FlatMapFile(fs[paths[1]])
         /\ DocKeys(fs[paths[1]]) # {} ) =>
          /\ \A k \in DOMAIN log : log[k].ok
          /\ Done =>
                /\ result = OkUnit
                /\ Len(log) = Len(Schedule(Len(paths)))
                /\ Len(file_vec) = Len(paths)

\* The same path three times, naming a map of two entries.
C15_Witness ==
    /\ Done
    /\ Len(paths) = 3
    /\ Cardinality(Range(paths)) = 1
    /\ Cardinality(DocKeys(fs[paths[1]])) = 2
    /\ result = OkUnit

====
